---- MODULE Spec2Model ----
(***************************************************************************)
(* Model of server.py: the FastAPI route handlers of the AI TRPG server,   *)
(* the completion client (call_gemini), the response normalizer            *)
(* (parse_json_response) and the dice resolver (roll_dice).                *)
(*                                                                         *)
(* The server keeps no state between requests.  The state of the model is  *)
(* the request last served, what the completion backend did during it, the *)
(* handler's locals (response_text, result, history_text) and the HTTP     *)
(* response.  A route action runs one whole handler; SendResponse ends the *)
(* request, after which nothing of it is left.                             *)
(*                                                                         *)
(* Korean string literals of the source are written in English here,       *)
(* because the module is ASCII.                                            *)
(***************************************************************************)
EXTENDS Integers, Sequences, FiniteSets, TLC

(***************************************************************************)
(* Bounds of the model.                                                    *)
(***************************************************************************)
\* longest history a request carries (more than the window of 10)
MaxHistory == 12
\* stat_value ranges over 10 - StatSpread .. 10 + StatSpread
StatSpread == 11
\* difficulty ranges over 12 - DifficultySpread .. 12 + DifficultySpread, and
\* the 100 no total reaches
DifficultySpread == 12
\* the roles of a history start at one of 0 .. MaxShift places into Roles
MaxShift == 4

(***************************************************************************)
(* Program constants.                                                      *)
(***************************************************************************)
\* history[-10:]
HistoryWindow == 10
\* random.randint(1, 20)
DieSides == 20
\* (stat_value - 10) // 2
StatBase == 10
StatDivisor == 2
\* difficulty: int = 12
DefaultDifficulty == 12
\* status_code=500
ServerError == 500
\* a handler that returns a dict is answered with 200
HttpOk == 200

(***************************************************************************)
(* Python values.  A value carries its type, as isinstance() reads it.     *)
(***************************************************************************)
None == [t |-> "NoneType"]
PyStr(s) == [t |-> "str", v |-> s]
PyInt(n) == [t |-> "int", v |-> n]
PyBool(b) == [t |-> "bool", v |-> b]
PyList(l) == [t |-> "list", v |-> l]
PyDict(d) == [t |-> "dict", v |-> d]
EmptyDict == [k \in {} |-> None]

\* The outcome of a call: a returned value or a raised exception.
Return(v) == [kind |-> "return", value |-> v]
Raise(e) == [kind |-> "raise", exc |-> e]
\* The locals of a handler that never reached the call.
NotCalled == [kind |-> "not called"]

PyException(type, msg) == [type |-> type, msg |-> msg]
HTTPException(status_code, detail) ==
    [type |-> "HTTPException", status_code |-> status_code, detail |-> detail]
JSONResponse(status_code, content) ==
    [t |-> "JSONResponse", status_code |-> status_code, content |-> content]

\* str(e): the message of an ordinary exception; an HTTPException prints as
\* "<status_code>: <detail>".
str(e) ==
    IF e.type = "HTTPException"
    THEN PyStr(<<e.status_code, ": ", e.detail>>)
    ELSE PyStr(e.msg)

(***************************************************************************)
(* The completion backend: client.models.generate_content.  It is outside  *)
(* the program; a call ends in one of these ways.                          *)
(***************************************************************************)
\* Texts the backend replies with.
Texts ==
    { "[1,2,3]", "\"hi\"", "{\"a\":1}", "42", "true", "null", "{}",
      "{\"narration\":\"The door opens.\",\"danger_level\":\"caution\"}",
      "{\"narration\":\"A guard.\",\"dialogues\":[{\"speaker\":\"Guard\",\"text\":\"Halt!\"}]}",
      "{not json", "", " a misty castle \n" }

BackendErrors ==
    { PyException("ConnectionError", "backend unreachable"),
      PyException("ClientError", "429 RESOURCE_EXHAUSTED") }

BackendOutcomes ==
    \* generate_content raises
    { [kind |-> "raise", exc |-> e] : e \in BackendErrors }
    \* the response object has no text attribute
    \cup { [kind |-> "response", has_text |-> FALSE, text |-> None] }
    \* response.text is None: the reply has no text part
    \cup { [kind |-> "response", has_text |-> TRUE, text |-> None] }
    \* response.text is a string
    \cup { [kind |-> "response", has_text |-> TRUE, text |-> PyStr(s)] : s \in Texts }

GeminiError == "Gemini call failed"
NoTextAttribute == PyException("ValueError", "Gemini response has no text attribute")

\* call_gemini calling generate_content again after a failed call.
gemini_calls_retry(backend) ==
    IF backend.kind = "raise" \/ ~backend.has_text THEN 2 ELSE 1

\* The generate_content calls one call_gemini makes: the single call of its
\* try block, whatever comes of it.
gemini_calls(backend) == 1

\* call_gemini: every exception of the try block, the ValueError of the
\* hasattr test included, becomes an HTTPException(500); otherwise
\* response.text is returned as it is.
call_gemini(backend) ==
    LET body ==
            IF backend.kind = "raise" THEN Raise(backend.exc)
            ELSE IF ~backend.has_text THEN Raise(NoTextAttribute)
            ELSE Return(backend.text)
    IN  IF body.kind = "raise"
        THEN Raise(HTTPException(ServerError,
                 [error |-> GeminiError, reason |-> str(body.exc)]))
        ELSE body

(***************************************************************************)
(* json.loads on the texts above.                                          *)
(***************************************************************************)
JSONDecodeError(msg) == PyException("JSONDecodeError", msg)
NotAString ==
    PyException("TypeError",
                "the JSON object must be str, bytes or bytearray, not NoneType")

GuardLine == PyDict([speaker |-> PyStr("Guard"), text |-> PyStr("Halt!")])

json_loads(text) ==
    IF text.t # "str" THEN Raise(NotAString)
    ELSE CASE text.v = "[1,2,3]" -> Return(PyList(<<PyInt(1), PyInt(2), PyInt(3)>>))
         [] text.v = "\"hi\"" -> Return(PyStr("hi"))
         [] text.v = "{\"a\":1}" -> Return(PyDict([a |-> PyInt(1)]))
         [] text.v = "42" -> Return(PyInt(42))
         [] text.v = "true" -> Return(PyBool(TRUE))
         [] text.v = "null" -> Return(None)
         [] text.v = "{}" -> Return(PyDict(EmptyDict))
         [] text.v = "{\"narration\":\"The door opens.\",\"danger_level\":\"caution\"}" ->
                Return(PyDict([narration |-> PyStr("The door opens."),
                               danger_level |-> PyStr("caution")]))
         [] text.v = "{\"narration\":\"A guard.\",\"dialogues\":[{\"speaker\":\"Guard\",\"text\":\"Halt!\"}]}" ->
                Return(PyDict([narration |-> PyStr("A guard."),
                               dialogues |-> PyList(<<GuardLine>>)]))
         [] text.v = "{not json" ->
                Raise(JSONDecodeError("Expecting property name enclosed in double quotes: line 1 column 2 (char 1)"))
         [] text.v = "" ->
                Raise(JSONDecodeError("Expecting value: line 1 column 1 (char 0)"))
         [] text.v = " a misty castle \n" ->
                Raise(JSONDecodeError("Expecting value: line 1 column 2 (char 1)"))

ParseError == "AI response (JSON) could not be parsed"

\* parse_json_response with lists wrapped under "result" like any other
\* non-dict.
parse_json_response_no_items(text) ==
    LET loaded == json_loads(text)
    IN  IF loaded.kind = "raise"
        THEN IF loaded.exc.type = "JSONDecodeError"
             THEN Raise(HTTPException(ServerError,
                      [error |-> ParseError,
                       reason |-> str(loaded.exc),
                       raw_response |-> text]))
             ELSE loaded
        ELSE IF loaded.value.t # "dict"
             THEN Return(PyDict([result |-> loaded.value]))
             ELSE Return(loaded.value)

\* parse_json_response recovering an empty mapping from malformed text.
parse_json_response_lenient(text) ==
    LET loaded == json_loads(text)
    IN  IF loaded.kind = "raise"
        THEN IF loaded.exc.type = "JSONDecodeError"
             THEN Return(PyDict(EmptyDict))
             ELSE loaded
        ELSE IF loaded.value.t = "list"
             THEN Return(PyDict([items |-> loaded.value]))
             ELSE IF loaded.value.t # "dict"
             THEN Return(PyDict([result |-> loaded.value]))
             ELSE Return(loaded.value)

\* parse_json_response: a list is wrapped as {"items": ...}, any other
\* non-dict as {"result": ...}; only JSONDecodeError is caught.
parse_json_response(text) ==
    LET loaded == json_loads(text)
    IN  IF loaded.kind = "raise"
        THEN IF loaded.exc.type = "JSONDecodeError"
             THEN Raise(HTTPException(ServerError,
                      [error |-> ParseError,
                       reason |-> str(loaded.exc),
                       raw_response |-> text]))
             ELSE loaded
        ELSE LET parsed == loaded.value
                 wrapped == IF parsed.t = "list"
                            THEN PyDict([items |-> parsed])
                            ELSE parsed
             IN  IF wrapped.t # "dict"
                 THEN Return(PyDict([result |-> wrapped]))
                 ELSE Return(wrapped)

(***************************************************************************)
(* FastAPI: what the client receives for the outcome of a handler.         *)
(***************************************************************************)
fastapi_response(outcome) ==
    IF outcome.kind = "return"
    THEN IF outcome.value.t = "JSONResponse"
         THEN [status_code |-> outcome.value.status_code, body |-> outcome.value.content]
         ELSE [status_code |-> HttpOk, body |-> outcome.value.v]
    ELSE IF outcome.exc.type = "HTTPException"
         THEN [status_code |-> outcome.exc.status_code,
               body |-> [detail |-> outcome.exc.detail]]
         ELSE [status_code |-> ServerError, body |-> [detail |-> "Internal Server Error"]]

\* except Exception as e: return JSONResponse(500, {"success": False, "error": str(e)})
error_response(e) ==
    Return(JSONResponse(ServerError, [success |-> FALSE, error |-> str(e)]))

(***************************************************************************)
(* State.                                                                  *)
(***************************************************************************)
VARIABLES
    request,        \* the request being served
    backend,        \* what generate_content did during it
    response_text,  \* outcome of call_gemini
    result,         \* outcome of parse_json_response
    history_text,   \* the history lines of the game-action prompt
    response,       \* the HTTP response
    calls           \* generate_content calls made for the request

vars == <<request, backend, response_text, result, history_text, response, calls>>

NoRequest == [route |-> "none"]
NoBackend == [kind |-> "not called"]
NoResponse == [status_code |-> 0, body |-> [detail |-> "none"]]

Init ==
    /\ request = NoRequest
    /\ backend = NoBackend
    /\ response_text = NotCalled
    /\ result = NotCalled
    /\ history_text = <<>>
    /\ response = NoResponse
    /\ calls = 0

(***************************************************************************)
(* POST /api/generate                                                      *)
(***************************************************************************)
Prompts == { "a castle", "  a castle \n" }

generate(req, b) ==
    LET text == call_gemini(b)
    IN  IF text.kind = "raise"
        THEN text  \* except HTTPException: raise
        ELSE Return(PyDict([success |-> TRUE, result |-> text.value]))

Generate ==
    /\ request = NoRequest
    /\ \E p \in Prompts, b \in BackendOutcomes :
        LET req == [route |-> "/api/generate", prompt |-> PyStr(p)]
        IN  /\ request' = req
            /\ backend' = b
            /\ response_text' = call_gemini(b)
            /\ result' = NotCalled
            /\ history_text' = <<>>
            /\ response' = fastapi_response(generate(req, b))
            /\ calls' = gemini_calls(b)

(***************************************************************************)
(* POST /api/scenario/generate                                             *)
(***************************************************************************)
Themes == { "zombie apocalypse" }

generate_scenario(req, b) ==
    LET text == call_gemini(b)
    IN  IF text.kind = "raise"
        THEN text  \* except HTTPException: raise
        ELSE LET scenario == parse_json_response(text.value)
             IN  IF scenario.kind = "raise"
                 THEN IF scenario.exc.type = "HTTPException"
                      THEN scenario
                      ELSE error_response(scenario.exc)
                 ELSE Return(PyDict([success |-> TRUE, scenario |-> scenario.value]))

GenerateScenario ==
    /\ request = NoRequest
    /\ \E th \in Themes, b \in BackendOutcomes :
        LET req == [route |-> "/api/scenario/generate", theme |-> PyStr(th)]
            text == call_gemini(b)
        IN  /\ request' = req
            /\ backend' = b
            /\ response_text' = text
            /\ result' = IF text.kind = "return"
                         THEN parse_json_response(text.value) ELSE NotCalled
            /\ history_text' = <<>>
            /\ response' = fastapi_response(generate_scenario(req, b))
            /\ calls' = gemini_calls(b)

(***************************************************************************)
(* POST /api/game/action                                                   *)
(***************************************************************************)
\* Roles of history entries; "system" and "narrator" are neither gm, player
\* nor npc.
Roles == <<"gm", "player", "npc", "system", "narrator">>

\* The history of n entries whose i-th entry has the text "turn i" and the
\* role Roles[(i + shift) mod 5].
History(n, shift) ==
    [i \in 1..n |-> [role |-> Roles[((i + shift) % Len(Roles)) + 1],
                     text |-> "turn " \o ToString(i)]]

Histories == { History(n, shift) : n \in 0..MaxHistory, shift \in 0..MaxShift }

Actions == { "I open the door" }

\* The sample data of test_action.
SampleScenario ==
    [title |-> "Test dungeon", setting |-> "A dark dungeon", goal |-> "Find the treasure",
     locations |-> <<"entrance", "corridor", "treasury">>,
     threats |-> <<"trap", "monster">>,
     npcs |-> <<[name |-> "Guide", role |-> "helper", personality |-> "kind"]>>]
SampleCharacter ==
    [name |-> "Test hero", class |-> "warrior",
     stats |-> [hp |-> 80, maxHp |-> 100, strength |-> 15, agility |-> 12,
                intelligence |-> 10, luck |-> 8],
     inventory |-> <<"sword", "torch">>,
     background |-> "A brave adventurer"]

\* recent_history keeping the first 10 entries: history[:10].
recent_history_oldest(history) ==
    IF Len(history) > HistoryWindow
    THEN SubSeq(history, 1, HistoryWindow)
    ELSE history

\* history[-10:] if len(history) > 10 else history
recent_history(history) ==
    IF Len(history) > HistoryWindow
    THEN SubSeq(history, Len(history) - HistoryWindow + 1, Len(history))
    ELSE history

role_label(role) ==
    IF role = "gm" THEN "[GM]"
    ELSE IF role = "player" THEN "[Player]"
    ELSE IF role = "npc" THEN "[NPC]"
    ELSE "[System]"

history_line(h) == role_label(h.role) \o ": " \o h.text

\* sep.join(lines), as the sequence of its pieces.
RECURSIVE join(_, _)
join(sep, lines) ==
    IF lines = <<>> THEN <<>>
    ELSE IF Len(lines) = 1 THEN <<lines[1]>>
    ELSE <<lines[1], sep>> \o join(sep, Tail(lines))

build_history_text(history) ==
    LET recent == recent_history(history)
    IN  join("\n", [i \in 1..Len(recent) |-> history_line(recent[i])])

\* The back-fill resetting dialogues whether or not the reply has them.
fill_dialogues_overwrite(d) ==
    PyDict([k \in DOMAIN d.v \cup {"dialogues"} |->
               IF k = "dialogues" THEN PyList(<<>>) ELSE d.v[k]])

\* if 'dialogues' not in result: result['dialogues'] = []
fill_dialogues(d) ==
    IF "dialogues" \in DOMAIN d.v
    THEN d
    ELSE PyDict([k \in DOMAIN d.v \cup {"dialogues"} |->
                    IF k = "dialogues" THEN PyList(<<>>) ELSE d.v[k]])

\* The try block shared by game_action and roll_result_narration.
game_event_try(b) ==
    LET text == call_gemini(b)
    IN  IF text.kind = "raise"
        THEN text
        ELSE LET parsed == parse_json_response(text.value)
             IN  IF parsed.kind = "raise"
                 THEN parsed
                 ELSE Return(PyDict([success |-> TRUE,
                                     result |-> fill_dialogues(parsed.value)]))

ActionFallback ==
    PyDict([narration |-> PyStr("An unknown error occurred."),
            dialogues |-> PyList(<<>>),
            requires_roll |-> PyBool(FALSE),
            roll_type |-> None,
            roll_difficulty |-> None,
            damage_taken |-> PyInt(0),
            items_gained |-> PyList(<<>>),
            items_lost |-> PyList(<<>>),
            npc_present |-> None,
            danger_level |-> PyStr("safe"),
            image_prompt |-> None])

game_action(req, b) ==
    LET tried == game_event_try(b)
    IN  IF tried.kind = "return" THEN tried
        ELSE IF tried.exc.type = "HTTPException"
        THEN tried  \* except HTTPException: raise
        ELSE Return(PyDict([success |-> TRUE, result |-> ActionFallback]))

GameAction ==
    /\ request = NoRequest
    /\ \E h \in Histories, a \in Actions, b \in BackendOutcomes :
        LET req == [route |-> "/api/game/action", scenario |-> SampleScenario,
                    character |-> SampleCharacter, history |-> h, action |-> PyStr(a)]
            text == call_gemini(b)
        IN  /\ request' = req
            /\ backend' = b
            /\ response_text' = text
            /\ result' = IF text.kind = "return"
                         THEN parse_json_response(text.value) ELSE NotCalled
            /\ history_text' = build_history_text(req.history)
            /\ response' = fastapi_response(game_action(req, b))
            /\ calls' = gemini_calls(b)

(***************************************************************************)
(* POST /api/game/roll                                                     *)
(***************************************************************************)
StatValues == (StatBase - StatSpread)..(StatBase + StatSpread)
Difficulties ==
    ((DefaultDifficulty - DifficultySpread)..(DefaultDifficulty + DifficultySpread))
        \cup {100}

\* Division rounding toward zero, as int(a / b).
truncdiv(a, b) == IF a >= 0 THEN a \div b ELSE -((-a) \div b)

\* Python's a // b for b > 0: the quotient rounded toward minus infinity.
floordiv(a, b) == a \div b

\* roll_dice without the natural-20 override of is_success.
roll_dice_no_override(req, roll) ==
    LET total == roll + floordiv(req.stat_value - StatBase, StatDivisor)
    IN  Return(PyDict([success |-> TRUE,
                       roll |-> roll,
                       bonus |-> floordiv(req.stat_value - StatBase, StatDivisor),
                       total |-> total,
                       difficulty |-> req.difficulty,
                       is_success |-> total >= req.difficulty,
                       is_critical |-> roll = DieSides,
                       is_fumble |-> roll = 1]))


roll_dice(req, roll) ==
    LET stat_value == req.stat_value
        difficulty == req.difficulty
        total == roll + floordiv(stat_value - StatBase, StatDivisor)
        success == total >= difficulty
        critical == roll = DieSides
        fumble == roll = 1
    IN  Return(PyDict([success |-> TRUE,
                       roll |-> roll,
                       bonus |-> floordiv(stat_value - StatBase, StatDivisor),
                       total |-> total,
                       difficulty |-> difficulty,
                       is_success |-> success \/ critical,
                       is_critical |-> critical,
                       is_fumble |-> fumble]))

RollDice ==
    /\ request = NoRequest
    /\ \E sv \in StatValues, d \in Difficulties, roll \in 1..DieSides :
        LET req == [route |-> "/api/game/roll", stat_value |-> sv, difficulty |-> d]
        IN  /\ request' = req
            /\ backend' = NoBackend
            /\ response_text' = NotCalled
            /\ result' = NotCalled
            /\ history_text' = <<>>
            /\ response' = fastapi_response(roll_dice(req, roll))
            /\ calls' = 0

(***************************************************************************)
(* POST /api/game/roll-result                                              *)
(***************************************************************************)
RollResults ==
    { [roll |-> 20, bonus |-> 2, total |-> 22, difficulty |-> 12,
       is_success |-> TRUE, is_critical |-> TRUE, is_fumble |-> FALSE],
      [roll |-> 1, bonus |-> -1, total |-> 0, difficulty |-> 12,
       is_success |-> FALSE, is_critical |-> FALSE, is_fumble |-> TRUE] }

RollFallback ==
    PyDict([narration |-> PyStr("The roll result was applied."),
            dialogues |-> PyList(<<>>),
            damage_taken |-> PyInt(0),
            items_gained |-> PyList(<<>>),
            danger_level |-> PyStr("safe"),
            image_prompt |-> None])

\* roll_result_narration re-raising HTTPException as game_action does.
roll_result_narration_reraise(req, b) ==
    LET tried == game_event_try(b)
    IN  IF tried.kind = "return" THEN tried
        ELSE IF tried.exc.type = "HTTPException" THEN tried
        ELSE Return(PyDict([success |-> TRUE, result |-> RollFallback]))


roll_result_narration(req, b) ==
    LET tried == game_event_try(b)
    IN  IF tried.kind = "return" THEN tried
        ELSE Return(PyDict([success |-> TRUE, result |-> RollFallback]))  \* except:

RollResult ==
    /\ request = NoRequest
    /\ \E rr \in RollResults, a \in Actions, b \in BackendOutcomes :
        LET req == [route |-> "/api/game/roll-result", scenario |-> SampleScenario,
                    character |-> SampleCharacter, action |-> PyStr(a), roll_result |-> rr]
            text == call_gemini(b)
        IN  /\ request' = req
            /\ backend' = b
            /\ response_text' = text
            /\ result' = IF text.kind = "return"
                         THEN parse_json_response(text.value) ELSE NotCalled
            /\ history_text' = <<>>
            /\ response' = fastapi_response(roll_result_narration(req, b))
            /\ calls' = gemini_calls(b)

(***************************************************************************)
(* POST /api/image/enhance-prompt and /api/image/generate-prompt           *)
(***************************************************************************)
NoStrip == PyException("AttributeError", "'NoneType' object has no attribute 'strip'")

\* response_text.strip() on the texts of the model.
strip(text) ==
    IF text.t # "str" THEN Raise(NoStrip)
    ELSE IF text.v = " a misty castle \n" THEN Return(PyStr("a misty castle"))
    ELSE IF text.v = "  a castle \n" THEN Return(PyStr("a castle"))
    ELSE Return(text)

\* The try block of enhance_image_prompt.
enhance_try(b) ==
    LET text == call_gemini(b)
    IN  IF text.kind = "raise"
        THEN text
        ELSE LET stripped == strip(text.value)
             IN  IF stripped.kind = "raise"
                 THEN stripped
                 ELSE Return(PyDict([success |-> TRUE,
                                     enhanced_prompt |-> stripped.value]))

\* enhance_image_prompt answering a failure as generate_image_prompt does.
enhance_image_prompt_error(req, b) ==
    LET tried == enhance_try(b)
    IN  IF tried.kind = "return" THEN tried
        ELSE error_response(tried.exc)


enhance_image_prompt(req, b) ==
    LET tried == enhance_try(b)
    IN  IF tried.kind = "return" THEN tried
        ELSE Return(PyDict([success |-> FALSE,
                            error |-> str(tried.exc),
                            enhanced_prompt |-> req.prompt]))

EnhanceImagePrompt ==
    /\ request = NoRequest
    /\ \E p \in Prompts, b \in BackendOutcomes :
        LET req == [route |-> "/api/image/enhance-prompt", prompt |-> PyStr(p),
                    theme |-> PyStr("fantasy")]
        IN  /\ request' = req
            /\ backend' = b
            /\ response_text' = call_gemini(b)
            /\ result' = NotCalled
            /\ history_text' = <<>>
            /\ response' = fastapi_response(enhance_image_prompt(req, b))
            /\ calls' = gemini_calls(b)

generate_image_prompt(req, b) ==
    LET text == call_gemini(b)
    IN  IF text.kind = "raise"
        THEN error_response(text.exc)  \* except Exception as e
        ELSE LET stripped == strip(text.value)
             IN  IF stripped.kind = "raise"
                 THEN error_response(stripped.exc)
                 ELSE Return(PyDict([success |-> TRUE,
                                     image_prompt |-> stripped.value]))

GenerateImagePrompt ==
    /\ request = NoRequest
    /\ \E p \in Prompts, b \in BackendOutcomes :
        LET req == [route |-> "/api/image/generate-prompt", scene |-> PyStr(p),
                    scenario |-> None]
        IN  /\ request' = req
            /\ backend' = b
            /\ response_text' = call_gemini(b)
            /\ result' = NotCalled
            /\ history_text' = <<>>
            /\ response' = fastapi_response(generate_image_prompt(req, b))
            /\ calls' = gemini_calls(b)

\* The response is sent; the request and the handler's locals are gone.
SendResponse ==
    /\ request # NoRequest
    /\ request' = NoRequest
    /\ backend' = NoBackend
    /\ response_text' = NotCalled
    /\ result' = NotCalled
    /\ history_text' = <<>>
    /\ response' = NoResponse
    /\ calls' = 0

Next ==
    \/ SendResponse
    \/ Generate
    \/ GenerateScenario
    \/ GameAction
    \/ RollDice
    \/ RollResult
    \/ EnhanceImagePrompt
    \/ GenerateImagePrompt

Spec == Init /\ [][Next]_vars

(***************************************************************************)
(* Properties.                                                             *)
(***************************************************************************)
IsGameAction == request.route = "/api/game/action"
IsRoll == request.route = "/api/game/roll"
IsRollResult == request.route = "/api/game/roll-result"
IsEnhance == request.route = "/api/image/enhance-prompt"
IsGenerate == request.route = "/api/generate"
IsGeneratePrompt == request.route = "/api/image/generate-prompt"

\* call_gemini raised, or the reply could not be parsed.
CompletionFailed == response_text.kind = "raise" \/ result.kind = "raise"

\* C1: on the game-action route, when call_gemini raises or the returned
\* text is not valid JSON, the response is an HTTP success with
\* success == true, result.dialogues == [] and result.danger_level == "safe".
C1_GameActionFallback ==
    (IsGameAction /\ CompletionFailed) =>
        /\ response.status_code = HttpOk
        /\ response.body.success = TRUE
        /\ response.body.result.v["dialogues"] = PyList(<<>>)
        /\ response.body.result.v["danger_level"] = PyStr("safe")

\* C2: on the roll-result route no failure reaches the caller as an HTTP
\* error; when call_gemini or the parsing of its reply raises, the response
\* is success == true with the placeholder result (dialogues empty,
\* damage_taken 0, items_gained empty, danger_level "safe", image_prompt null).
C2_RollResultFallback ==
    IsRollResult =>
        /\ response.status_code = HttpOk
        /\ CompletionFailed =>
            /\ response.body.success = TRUE
            /\ response.body.result.v["dialogues"] = PyList(<<>>)
            /\ response.body.result.v["damage_taken"] = PyInt(0)
            /\ response.body.result.v["items_gained"] = PyList(<<>>)
            /\ response.body.result.v["danger_level"] = PyStr("safe")
            /\ response.body.result.v["image_prompt"] = None

\* The roll-result route has answered an upstream failure.
C2_Witness ==
    /\ IsRollResult
    /\ backend.kind = "raise"
    /\ response_text.kind = "raise"
    /\ response.status_code = HttpOk

\* C3: for every raw die value in 1..20 and all stat_value and difficulty,
\* is_critical == (raw == 20), is_fumble == (raw == 1) and
\* is_success == (total >= difficulty or raw == 20).
C3_RollFlags ==
    IsRoll =>
        LET out == response.body
        IN  /\ out.roll \in 1..20
            /\ out.difficulty = request.difficulty
            /\ out.is_critical = (out.roll = 20)
            /\ out.is_fumble = (out.roll = 1)
            /\ out.is_success = ((out.total >= out.difficulty) \/ out.roll = 20)
            /\ (out.roll = 1 /\ out.total < out.difficulty) =>
                   (out.is_fumble /\ ~out.is_success)

\* A natural 20 against difficulty 100: the total is short, the roll succeeds.
C3_Witness ==
    /\ IsRoll
    /\ response.body.roll = 20
    /\ request.difficulty = 100
    /\ response.body.total < response.body.difficulty
    /\ response.body.is_success

\* C4: bonus is floor((stat_value - 10) / 2), rounded toward minus infinity
\* (10 -> 0, 7 -> -2, 21 -> 5), and total is roll + bonus.
C4_RollBonus ==
    IsRoll =>
        LET out == response.body
            deficit == request.stat_value - 10
        IN  /\ 2 * out.bonus <= deficit
            /\ deficit < 2 * out.bonus + 2
            /\ out.total = out.roll + out.bonus
            /\ request.stat_value = 10 => out.bonus = 0
            /\ request.stat_value = 7 => out.bonus = -2
            /\ request.stat_value = 21 => out.bonus = 5

\* A roll with a stat below 10 whose deficit is odd.
C4_Witness ==
    /\ IsRoll
    /\ request.stat_value = 7
    /\ response.body.bonus = -2

\* The value json.loads gave for the reply of this request.
Loaded == json_loads(response_text.value)
ReplyParses ==
    /\ response_text.kind = "return"
    /\ result # NotCalled
    /\ Loaded.kind = "return"
ReplyMalformed ==
    /\ response_text.kind = "return"
    /\ result # NotCalled
    /\ response_text.value.t = "str"
    /\ Loaded.kind = "raise"

\* C5: for every text that parses as JSON, parse_json_response returns a
\* mapping: a sequence s gives {items: s}, a scalar v gives {result: v}, a
\* mapping is returned unchanged.
C5_NormalizerShape ==
    ReplyParses =>
        /\ result.kind = "return"
        /\ result.value.t = "dict"
        /\ Loaded.value.t = "list" => result.value.v = [items |-> Loaded.value]
        /\ Loaded.value.t \in {"str", "int", "bool", "NoneType"} =>
               result.value.v = [result |-> Loaded.value]
        /\ Loaded.value.t = "dict" => result.value = Loaded.value

\* The reply [1,2,3] was normalized.
C5_Witness ==
    /\ ReplyParses
    /\ response_text.value = PyStr("[1,2,3]")
    /\ result.value.v = [items |-> PyList(<<PyInt(1), PyInt(2), PyInt(3)>>)]

Min(a, b) == IF a <= b THEN a ELSE b

C7_Label(role) ==
    CASE role = "gm" -> "[GM]"
      [] role = "player" -> "[Player]"
      [] role = "npc" -> "[NPC]"
      [] OTHER -> "[System]"

C7_Line(h) == C7_Label(h.role) \o ": " \o h.text

\* C7: for a history of n entries exactly the last min(n, 10) are
\* serialized, oldest first, each prefixed by the label of its role, and no
\* older entry appears.
C7_HistoryWindow ==
    IsGameAction =>
        LET h == request.history
            n == Len(h)
            k == Min(n, 10)
        IN  /\ Len(history_text) = IF k = 0 THEN 0 ELSE 2 * k - 1
            /\ \A i \in 1..k : history_text[2 * i - 1] = C7_Line(h[n - k + i])
            /\ \A i \in 1..(k - 1) : history_text[2 * i] = "\n"
            /\ \A j \in 1..(n - k) :
                   \A i \in 1..Len(history_text) : history_text[i] # C7_Line(h[j])

\* A history of 12 entries was cut to its last 10.
C7_Witness ==
    /\ IsGameAction
    /\ Len(request.history) = 12
    /\ Len(history_text) = 19
    /\ history_text[1] = C7_Line(request.history[3])

\* C8: on the image-enhance route, when the completion call or the
\* post-processing of its reply fails, the response is no HTTP error: it has
\* success == false and enhanced_prompt equal to the request's prompt.
C8_EnhanceDegrades ==
    (IsEnhance /\ (response_text.kind = "raise" \/ response_text.value.t # "str")) =>
        /\ response.status_code = HttpOk
        /\ response.body.success = FALSE
        /\ response.body.enhanced_prompt = request.prompt

\* The enhance route has answered an upstream failure for a prompt that
\* strip() would change.
C8_Witness ==
    /\ IsEnhance
    /\ response_text.kind = "raise"
    /\ request.prompt = PyStr("  a castle \n")
    /\ response.body.enhanced_prompt = PyStr("  a castle \n")

\* C9: on the generate and generate-prompt routes, when the completion call
\* fails the response has status 500 and its body is the {error, reason}
\* object of the completion client.
C9_ErrorPropagates ==
    ((IsGenerate \/ IsGeneratePrompt) /\ response_text.kind = "raise") =>
        /\ response.status_code = 500
        /\ "detail" \in DOMAIN response.body
        /\ response.body.detail = response_text.exc.detail
        /\ DOMAIN response.body.detail = {"error", "reason"}

\* The cause string of what the backend did.
Cause ==
    IF backend.kind = "raise" THEN PyStr(backend.exc.msg) ELSE PyStr(NoTextAttribute.msg)

\* C10: call_gemini either returns a text string or raises the uniform
\* upstream error carrying the cause string; it never returns a non-text
\* value.
C10_CallGeminiUniform ==
    backend # NoBackend =>
        \/ /\ response_text.kind = "return"
           /\ response_text.value.t = "str"
        \/ /\ response_text.kind = "raise"
           /\ response_text.exc.type = "HTTPException"
           /\ response_text.exc.detail = [error |-> GeminiError, reason |-> Cause]

\* The response is a success envelope of a game-event route.
GameEventSuccess ==
    /\ IsGameAction \/ IsRollResult
    /\ response.status_code = HttpOk
    /\ response.body.success = TRUE

\* C11: every success response of the game-action and roll-result routes
\* has a result mapping with the key dialogues; a normalized reply without
\* dialogues gets the empty sequence, a reply with dialogues keeps its value,
\* and no other key of the reply is added, removed or changed.
C11_DialoguesBackfill ==
    GameEventSuccess =>
        LET out == response.body.result
        IN  /\ out.t = "dict"
            /\ "dialogues" \in DOMAIN out.v
            /\ result.kind = "return" =>
                LET reply == result.value.v
                IN  /\ DOMAIN out.v = DOMAIN reply \cup {"dialogues"}
                    /\ \A k \in DOMAIN reply : out.v[k] = reply[k]
                    /\ "dialogues" \notin DOMAIN reply =>
                           out.v["dialogues"] = PyList(<<>>)

\* A reply without dialogues was answered with the empty sequence added.
C11_Witness ==
    /\ GameEventSuccess
    /\ result.kind = "return"
    /\ DOMAIN result.value.v = {"narration", "danger_level"}
    /\ DOMAIN response.body.result.v = {"narration", "danger_level", "dialogues"}
    /\ response.body.result.v["dialogues"] = PyList(<<>>)

\* A reply with dialogues was answered with them as they came.
C11_WitnessKept ==
    /\ GameEventSuccess
    /\ result.kind = "return"
    /\ response.body.result.v["dialogues"] = PyList(<<GuardLine>>)

\* The response is an error: a status 500, or success == false.
IsErrorResponse ==
    \/ response.status_code = ServerError
    \/ response.body.success = FALSE
\* The response is a success envelope, the fallback payloads included.
IsSuccessResponse ==
    /\ response.status_code = HttpOk
    /\ response.body.success = TRUE

\* A request has been handled as C12 says.
HandledOnce ==
    /\ calls <= 1
    /\ IsRoll => (calls = 0 /\ backend = NoBackend)
    /\ ~IsRoll => (calls = 1 /\ backend # NoBackend)
    /\ response # NoResponse
    /\ IsErrorResponse # IsSuccessResponse

====
